---- MODULE Spec2Model ----
(***************************************************************************)
(* WALL-E chat client (static/js/app.js): the send flow.                   *)
(*                                                                         *)
(* sendMessage() posts the prompt to /api/chat and consumes the streamed   *)
(* reply: it reads the response body chunk by chunk, decodes each chunk,   *)
(* splits it on "\n", and handles each "data: <payload>" line.             *)
(*                                                                         *)
(* Text is modelled as a sequence of one-character strings, the wire as a  *)
(* sequence of bytes: an ASCII byte is written as its character, the two   *)
(* bytes of the character "é" as "C3" and "A9".  JavaScript runs handlers  *)
(* to their next await without interleaving, so one action is the code     *)
(* between two awaits: the for-loop over the lines of a chunk runs within  *)
(* the action that reads the chunk (RunLines), up to the await of its done *)
(* branch.                                                                 *)
(***************************************************************************)
EXTENDS Integers, Sequences, FiniteSets, TLC

\* ------------------------------------------------------------------ bounds
\* Lines the chat endpoint writes into one response body: in the runs with
\* one call (SpecStream), and in the runs with two calls (Spec).
MaxLines == 3
MaxCoreLines == 2

\* -------------------------------------------------------------- vocabulary
Null == "null"
Procs == {1, 2}
\* The id createNewChat makes up ('chat_' + Date.now()) when invocation p runs it.
NewChatId(p) == IF p = 1 THEN "n1" ELSE "n2"

NL == "\n"
DataPrefix == <<"d", "a", "t", "a", ":", " ">>
DoneSentinel == <<"[", "D", "O", "N", "E", "]">>
ReplacementChar == "U+FFFD"

\* Delta texts the endpoint sends in a content field ("" is the empty delta).
Contents == {<<>>, <<"a">>, <<"é">>}
\* The text of `Connection error: ${error.message}`.
ErrorText == <<"Connection error">>
\* What the user types into the text box: a prompt, or only white space.
Inputs == {<<"h", "i", " ">>, <<" ">>}

\* ------------------------------------------------------------ text helpers
Take(s, n) == SubSeq(s, 1, n)
Drop(s, n) == SubSeq(s, n + 1, Len(s))

\* String.prototype.startsWith
StartsWith(s, prefix) ==
    /\ Len(s) >= Len(prefix)
    /\ Take(s, Len(prefix)) = prefix

\* String.prototype.slice(n), n >= 0
Slice(s, n) == IF n >= Len(s) THEN <<>> ELSE Drop(s, n)

\* String.prototype.trim, for the space character
RECURSIVE TrimLeft(_)
TrimLeft(s) == IF s # <<>> /\ Head(s) = " " THEN TrimLeft(Tail(s)) ELSE s
RECURSIVE TrimRight(_)
TrimRight(s) ==
    IF s # <<>> /\ s[Len(s)] = " " THEN TrimRight(Take(s, Len(s) - 1)) ELSE s
Trim(s) == TrimRight(TrimLeft(s))

\* String.prototype.split('\n'): always at least one segment; the last one
\* is what follows the last "\n" (empty when the text ends with "\n").
\* SplitFrom scans s from index i, the current segment starting at `start`.
RECURSIVE SplitFrom(_, _, _)
SplitFrom(s, i, start) ==
    IF i > Len(s) THEN <<SubSeq(s, start, Len(s))>>
    ELSE IF s[i] = NL THEN <<SubSeq(s, start, i - 1)>> \o SplitFrom(s, i + 1, i + 1)
    ELSE SplitFrom(s, i + 1, start)
Split(s) == SplitFrom(s, 1, 1)

\* TextEncoder on the server side: "é" is two bytes, the rest one.
RECURSIVE Encode(_)
Encode(s) ==
    IF s = <<>> THEN <<>>
    ELSE (IF Head(s) = "é" THEN <<"C3", "A9">> ELSE <<Head(s)>>) \o Encode(Tail(s))

\* new TextDecoder().decode(value) with no {stream: true}: every chunk is
\* decoded on its own. The bytes C3 A9 together are "é"; a C3 with no A9
\* after it in the chunk, or an A9 with no C3 before it, becomes U+FFFD.
DecodeAt(bytes, i) ==
    IF bytes[i] = "C3"
    THEN IF i < Len(bytes) /\ bytes[i + 1] = "A9" THEN "é" ELSE ReplacementChar
    ELSE IF bytes[i] = "A9"
         THEN IF i > 1 /\ bytes[i - 1] = "C3" THEN "" ELSE ReplacementChar
    ELSE bytes[i]
Decode(bytes) ==
    SelectSeq([i \in 1..Len(bytes) |-> DecodeAt(bytes, i)], LAMBDA c : c # "")

\* ------------------------------------------------------------ JSON payloads
\* The values the endpoint serialises into a frame (spec: an object with the
\* optional fields content and done), and the value null.
JsonValues ==
    {[kind |-> "content", content |-> c, done |-> FALSE] : c \in Contents}
      \cup {[kind |-> "done", content |-> <<>>, done |-> TRUE]}

\* JSON.stringify of such a value.
Stringify(v) ==
    IF v.kind = "content"
    THEN <<"{", "\"", "c", "o", "n", "t", "e", "n", "t", "\"", ":", "\"">>
           \o v.content \o <<"\"", "}">>
    ELSE <<"{", "\"", "d", "o", "n", "e", "\"", ":", "t", "r", "u", "e", "}">>

SyntaxError == [kind |-> "SyntaxError", content |-> <<>>, done |-> FALSE]

\* JSON.parse on the texts that reach it here: the serialised values above
\* parse back to the value; every other text of the model (a fragment of a
\* frame cut by a chunk boundary, the malformed frame) is no JSON document.
JsonTexts == {Stringify(v) : v \in JsonValues}
ParseTable == [t \in JsonTexts |-> CHOOSE v \in JsonValues : Stringify(v) = t]
JSONParse(data) == IF data \in JsonTexts THEN ParseTable[data] ELSE SyntaxError

\* The lines the endpoint writes (without their "\n").
Malformed == DataPrefix \o <<"{", "n", "o", "t", " ", "j", "s", "o", "n">>
ServerLines ==
    {DataPrefix \o Stringify(v) : v \in JsonValues}
      \cup {Malformed, DataPrefix \o DoneSentinel, <<>>}

\* The response bodies: up to MaxLines lines, each ended by "\n", as bytes.
RECURSIVE BodiesOf(_)
BodiesOf(n) ==
    IF n = 0 THEN {<<>>}
    ELSE LET shorter == BodiesOf(n - 1)
         IN shorter \cup {b \o Encode(l) \o <<NL>> : b \in shorter, l \in ServerLines}
Bodies == BodiesOf(MaxLines)


\* -------------------------------------------------- the handling of a line
\* Two variants of LineEffect with a plausible slip each, used to test that
\* the properties below depend on it: one takes the '[DONE]' payload for the
\* end of the stream, one does not test for the 'data: ' marker.
LineEffectDoneSentinel(line) ==
    IF ~StartsWith(line, DataPrefix) THEN [type |-> "skip", text |-> <<>>]
    ELSE LET data == Slice(line, 6)
             parsed == JSONParse(data)
         IN IF data = <<>> THEN [type |-> "skip", text |-> <<>>]
            ELSE IF data = DoneSentinel THEN [type |-> "done", text |-> <<>>]
            ELSE IF parsed.kind = "SyntaxError"
                 THEN [type |-> "throw", text |-> <<>>]
            ELSE IF parsed.done THEN [type |-> "done", text |-> <<>>]
            ELSE IF parsed.content # <<>>
                 THEN [type |-> "delta", text |-> parsed.content]
            ELSE [type |-> "nop", text |-> <<>>]

LineEffectNoMarker(line) ==
    LET data == Slice(line, 6)
        parsed == JSONParse(data)
    IN IF data = <<>> \/ data = DoneSentinel
       THEN [type |-> "skip", text |-> <<>>]
       ELSE IF parsed.kind = "SyntaxError"
            THEN [type |-> "throw", text |-> <<>>]
       ELSE IF parsed.done THEN [type |-> "done", text |-> <<>>]
       ELSE IF parsed.content # <<>>
            THEN [type |-> "delta", text |-> parsed.content]
       ELSE [type |-> "nop", text |-> <<>>]

\* What the body of `for (const line of lines)` does with one line, up to
\* the effect on the state: "skip" (continue), "throw" (the inner catch logs
\* 'Error parsing stream data'), "done", "delta" (content appended), "nop".
LineEffect(line) ==
    IF ~StartsWith(line, DataPrefix) THEN [type |-> "skip", text |-> <<>>]
    ELSE LET data == Slice(line, 6)
             parsed == JSONParse(data)
         IN IF data = <<>> \/ data = DoneSentinel
            THEN [type |-> "skip", text |-> <<>>]
            ELSE IF parsed.kind = "SyntaxError"
                 THEN [type |-> "throw", text |-> <<>>]
            ELSE IF parsed.done THEN [type |-> "done", text |-> <<>>]
            ELSE IF parsed.content # <<>>
                 THEN [type |-> "delta", text |-> parsed.content]
            ELSE [type |-> "nop", text |-> <<>>]

\* -------------------------------------------------------------------- state
VARIABLES
    \* const state = {...}
    currentChatId,          \* state.currentChatId: a chat id or Null
    chats,                  \* state.chats: chat id -> its messages
    isWaitingForResponse,   \* state.isWaitingForResponse
    isStreaming,            \* state.isStreaming
    currentStreamResponse,  \* state.currentStreamResponse
    currentStreamMessage,   \* state.currentStreamMessage: 0 for null, or p for
                            \* the message object made by invocation p
    streamContent,          \* .content of the message object made by invocation p
    textInput,              \* elements.textInput.value
    \* one sendMessage() call per p in invocations
    invocations,            \* the calls the user makes in this run
    pc,                     \* where call p is suspended
    message,                \* its const message
    lines,                  \* the lines of its chunk still to be handled
    caller,                 \* who awaits its addMessageToChat: "send" or "error"
    sent,                   \* whether it has posted its payload, and the
                            \* chat_history of that payload
    \* the response body of call p
    body,                   \* the bytes the endpoint sends
    pos,                    \* how many of them reader.read() has delivered
    reader,                 \* the reader of the body: "none" before getReader(),
                            \* "open", "closed" (read() reported the end) or
                            \* "errored" (read() rejected)
    \* observation
    errorLog,               \* console.error('Error parsing stream data:') calls
    events,                 \* per call, in order: "delta", "completion", "error",
                            \* "saveFailed" (the save of the done branch failed),
                            \* "abandoned" (the user left the chat mid-request)
    applied,                \* per call: the content appended, concatenated
    \* the chats of the sidebar
    loading,                \* where loadChatsFromBackend() is suspended
    \* the music player
    availableMusicTracks,   \* state.availableMusicTracks (the filenames)
    currentTrackIndex,      \* state.currentTrackIndex
    miniPlayerHidden,       \* elements.miniPlayer has the class 'hidden'
    minimizedPlayerHidden,  \* elements.minimizedPlayer has the class 'hidden'
    musicModalActive,       \* elements.musicModal has the class 'active'
    audioPaused,            \* elements.audioElement.paused
    audioCurrentTime,       \* elements.audioElement.currentTime (0, or 1 for more)
    musicList,              \* the tracks shown in elements.musicList
    musicLoading,           \* loadMusicLibrary() calls that await their fetch
    \* a draggable panel, as <<x, y>> pairs
    isDragging,             \* the closure variable isDragging
    dragStart,              \* startX, startY
    dragInitial,            \* initialX, initialY
    panelPos,               \* style.left, style.top of the panel (its place)
    viewport,               \* window.innerWidth, window.innerHeight
    panelSize               \* offsetWidth, offsetHeight of the panel

chatVars == <<currentChatId, chats>>
streamVars == <<isWaitingForResponse, isStreaming, currentStreamResponse,
                currentStreamMessage, streamContent>>
netVars == <<body, pos, reader>>
obsVars == <<errorLog, events, applied>>
musicVars == <<availableMusicTracks, currentTrackIndex, miniPlayerHidden,
               minimizedPlayerHidden, musicModalActive, audioPaused, audioCurrentTime,
               musicList, musicLoading>>
dragVars == <<isDragging, dragStart, dragInitial, panelPos, viewport, panelSize>>
uiVars == <<loading, musicVars, dragVars>>
\* All that the music player and the panels leave alone.
chatPage == <<chatVars, streamVars, textInput, invocations, pc, message, lines,
              caller, sent, netVars, obsVars, loading>>
vars == <<currentChatId, chats, isWaitingForResponse, isStreaming,
          currentStreamResponse, currentStreamMessage, streamContent, textInput,
          invocations, pc, message, lines, caller, sent, body, pos, reader,
          errorLog, events, applied, loading, availableMusicTracks,
          currentTrackIndex, miniPlayerHidden, minimizedPlayerHidden,
          musicModalActive, audioPaused, audioCurrentTime, musicList, musicLoading,
          isDragging, dragStart,
          dragInitial, panelPos, viewport, panelSize>>

\* A message in a chat's list. obj = 0: a message of its own. obj = q: the
\* message object made by invocation q, which state.currentStreamMessage may
\* still change (its content is streamContent[q]). by: the call that pushed
\* it (an observation, no field of the program).
Msg(role, content, by) == [role |-> role, content |-> content, obj |-> 0, by |-> by]
StreamMsgRef(q, by) == [role |-> "assistant", content |-> <<>>, obj |-> q, by |-> by]
ContentOf(m) == IF m.obj = 0 THEN m.content ELSE streamContent[m.obj]

HasChat(cs, c) == c # Null /\ c \in DOMAIN cs
\* chat.messages.push(m)
Push(cs, c, m) == [cs EXCEPT ![c] = Append(@, m)]
\* state.chats.set(c, chat)
SetChat(cs, c, msgs) == [x \in DOMAIN cs \cup {c} |-> IF x = c THEN msgs ELSE cs[x]]


\* buildChatHistory(), with cs and cur the chats and the current chat.
BuildChatHistory(cs, cur) ==
    IF ~HasChat(cs, cur) THEN <<>>
    ELSE IF Len(cs[cur]) = 0 THEN <<>>
    ELSE [i \in 1..(Len(cs[cur]) - 1) |->
             [role |-> cs[cur][i].role, content |-> ContentOf(cs[cur][i])]]
NoRequest == [posted |-> FALSE, chat_history |-> <<>>]

\* The music player as the page and `state` set it up: no track, both
\* players hidden, the modal closed, nothing playing.
InitMusic ==
    /\ availableMusicTracks = <<>>
    /\ currentTrackIndex = -1
    /\ miniPlayerHidden = TRUE
    /\ minimizedPlayerHidden = TRUE
    /\ musicModalActive = FALSE
    /\ audioPaused = TRUE
    /\ audioCurrentTime = 0
    /\ musicList = <<>>
    /\ musicLoading = 0
\* A panel of size sz at place at, in a window of size vp, not being dragged.
InitDrag(vp, sz, at) ==
    /\ isDragging = FALSE
    /\ dragStart = <<0, 0>>
    /\ dragInitial = <<0, 0>>
    /\ panelPos = at
    /\ viewport = vp
    /\ panelSize = sz
\* The rest of the page while the chat is looked at: the chats are loaded,
\* the player and the panels are left alone.
Loader(at, c) == [at |-> at, chat |-> c]
InitUi == loading = Loader("done", Null) /\ InitMusic /\ InitDrag(<<2, 2>>, <<1, 1>>, <<0, 0>>)

\* No request is under way, and calls are the sendMessage calls to come.
InitCalls(calls) ==
    /\ isWaitingForResponse = FALSE
    /\ isStreaming = FALSE
    /\ currentStreamResponse = <<>>
    /\ currentStreamMessage = 0
    /\ streamContent = [p \in Procs |-> <<>>]
    /\ textInput = <<>>
    /\ invocations = calls
    /\ pc = [p \in Procs |-> "idle"]
    /\ message = [p \in Procs |-> <<>>]
    /\ lines = [p \in Procs |-> <<>>]
    /\ caller = [p \in Procs |-> "send"]
    /\ sent = [p \in Procs |-> NoRequest]
    /\ body = [p \in Procs |-> <<>>]
    /\ pos = [p \in Procs |-> 0]
    /\ reader = [p \in Procs |-> "none"]
    /\ errorLog = 0
    /\ events = [p \in Procs |-> <<>>]
    /\ applied = [p \in Procs |-> <<>>]

InitWith(calls) ==
    /\ currentChatId \in {Null, "c1"}
    /\ chats = IF currentChatId = Null THEN <<>> ELSE [c \in {"c1"} |-> <<>>]
    /\ InitCalls(calls)
    /\ InitUi


\* A variant of SendContinue that raises one busy flag only.
SendContinueWaitingOnly(p) ==
    /\ textInput' = <<>>
    /\ isWaitingForResponse' = TRUE
    /\ isStreaming' = isStreaming
    /\ currentStreamResponse' = <<>>
    /\ currentStreamMessage' = p
    /\ streamContent' = [streamContent EXCEPT ![p] = <<>>]
    /\ sent' = [sent EXCEPT ![p] = [posted |-> TRUE,
                                     chat_history |-> BuildChatHistory(chats', currentChatId')]]
    /\ pc' = [pc EXCEPT ![p] = "fetch"]

\* ------------------------------------------------- pieces shared by actions
\* sendMessage after `await addMessageToChat('user', message)` has returned,
\* up to the await of fetch.
SendContinue(p) ==
    /\ textInput' = <<>>
    /\ isWaitingForResponse' = TRUE
    /\ isStreaming' = TRUE
    /\ currentStreamResponse' = <<>>
    /\ currentStreamMessage' = p
    /\ streamContent' = [streamContent EXCEPT ![p] = <<>>]
    /\ sent' = [sent EXCEPT ![p] = [posted |-> TRUE,
                                     chat_history |-> BuildChatHistory(chats', currentChatId')]]
    /\ pc' = [pc EXCEPT ![p] = "fetch"]

\* handleSendMessageError after `await addMessageToChat('assistant', ...)`.
ErrorContinue(p) ==
    /\ currentStreamResponse' = <<>>
    /\ pc' = [pc EXCEPT ![p] = "returned"]
    /\ UNCHANGED <<textInput, isWaitingForResponse, isStreaming,
                   currentStreamMessage, streamContent, sent>>

\* What runs when the addMessageToChat awaited by `who` returns.
Continue(p, who) == IF who = "send" THEN SendContinue(p) ELSE ErrorContinue(p)

\* The message addMessageToChat builds for its caller.
NewMessage(p, who) ==
    IF who = "send" THEN Msg("user", message'[p], p) ELSE Msg("assistant", ErrorText, p)

\* addMessageToChat from `const chat = state.chats.get(state.currentChatId)`
\* on, with cs and cur the chats and current chat at that point: without a
\* chat it returns, else it pushes the message and awaits the save.
AddMessageTail(p, cs, cur, who) ==
    /\ currentChatId' = cur
    /\ IF HasChat(cs, cur)
       THEN /\ chats' = Push(cs, cur, NewMessage(p, who))
            /\ pc' = [pc EXCEPT ![p] = "addSave"]
            /\ UNCHANGED <<streamVars, textInput, sent>>
       ELSE /\ chats' = cs
            /\ Continue(p, who)

\* addMessageToChat(role, content) up to its first await.
AddMessageToChat(p, who) ==
    /\ caller' = [caller EXCEPT ![p] = who]
    /\ IF currentChatId = Null
       THEN \* await createNewChat(): it awaits saveChatToBackend(chat)
            /\ pc' = [pc EXCEPT ![p] = "createSave"]
            /\ UNCHANGED <<chatVars, streamVars, textInput, sent>>
       ELSE AddMessageTail(p, chats, currentChatId, who)

\* handleSendMessageError(error) up to its first await. It is called, not
\* awaited, from the catch of sendMessage, which then returns.
HandleSendMessageError(p) ==
    /\ events' = [events EXCEPT ![p] = Append(@, "error")]
    /\ UNCHANGED <<errorLog, applied, message, lines, sent>>
    /\ IF currentStreamMessage # 0
       THEN /\ caller' = caller
            /\ textInput' = textInput
            /\ isStreaming' = FALSE
            /\ isWaitingForResponse' = FALSE
            /\ streamContent' =
                 [streamContent EXCEPT ![currentStreamMessage] = ErrorText]
            /\ currentChatId' = currentChatId
            /\ IF HasChat(chats, currentChatId)
               THEN /\ chats' =
                         Push(chats, currentChatId, StreamMsgRef(currentStreamMessage, p))
                    /\ pc' = [pc EXCEPT ![p] = "errSave"]
                    /\ UNCHANGED <<currentStreamMessage, currentStreamResponse>>
               ELSE /\ chats' = chats
                    /\ currentStreamMessage' = 0
                    /\ currentStreamResponse' = <<>>
                    /\ pc' = [pc EXCEPT ![p] = "returned"]
       ELSE \* the flags are reset, then addMessageToChat('assistant', ...)
            LET who == "error"
            IN /\ caller' = [caller EXCEPT ![p] = who]
               /\ currentStreamMessage' = currentStreamMessage
               /\ streamContent' = streamContent
               /\ textInput' = textInput
               /\ isStreaming' = FALSE
               /\ isWaitingForResponse' = FALSE
               /\ IF currentChatId = Null
                  THEN /\ pc' = [pc EXCEPT ![p] = "createSave"]
                       /\ UNCHANGED <<chatVars, currentStreamResponse>>
                  ELSE /\ currentChatId' = currentChatId
                       /\ IF HasChat(chats, currentChatId)
                          THEN /\ chats' = Push(chats, currentChatId,
                                                 Msg("assistant", ErrorText, p))
                               /\ pc' = [pc EXCEPT ![p] = "addSave"]
                               /\ UNCHANGED currentStreamResponse
                          ELSE /\ chats' = chats
                               /\ currentStreamResponse' = <<>>
                               /\ pc' = [pc EXCEPT ![p] = "returned"]


\* ------------------------------------------------------------------ actions
\* The user types into the empty text box, to send it.
TypeText(t) ==
    /\ textInput = <<>>
    /\ \E p \in invocations : pc[p] = "idle"
    /\ textInput' = t
    /\ UNCHANGED <<chatVars, streamVars, invocations, uiVars, pc, message, lines, caller,
                   sent, netVars, obsVars>>

\* sendMessage(), from the click or the Enter key, up to its first await.
SendMessage(p) ==
    /\ p \in invocations
    /\ pc[p] = "idle"
    /\ UNCHANGED <<invocations, uiVars, lines, netVars, obsVars>>
    /\ LET m == Trim(textInput)
       IN IF m = <<>> \/ isWaitingForResponse \/ isStreaming
          THEN /\ pc' = [pc EXCEPT ![p] = "returned"]
               /\ UNCHANGED <<chatVars, streamVars, textInput, message, caller, sent>>
          ELSE /\ message' = [message EXCEPT ![p] = m]
               /\ AddMessageToChat(p, "send")

\* createNewChat resumes from `await saveChatToBackend(chat)`; then the
\* addMessageToChat that awaited it goes on.
CreateSaved(p, ok) ==
    /\ pc[p] = "createSave"
    /\ UNCHANGED <<invocations, uiVars, message, lines, caller, netVars, obsVars>>
    /\ IF ok
       THEN AddMessageTail(p, SetChat(chats, NewChatId(p), <<>>), NewChatId(p),
                           caller[p])
       ELSE AddMessageTail(p, chats, currentChatId, caller[p])

\* addMessageToChat resumes from `await saveChatToBackend(chat)`. A failed
\* save rejects addMessageToChat and with it the function awaiting it.
AddSaved(p, ok) ==
    /\ pc[p] = "addSave"
    /\ UNCHANGED <<invocations, uiVars, message, lines, caller, netVars, obsVars, chatVars>>
    /\ IF ok
       THEN Continue(p, caller[p])
       ELSE /\ pc' = [pc EXCEPT ![p] = "rejected"]
            /\ UNCHANGED <<streamVars, textInput, sent>>

\* sendMessage resumes from `await fetch(.../api/chat)`; b is the body the
\* endpoint will stream when the response is ok.
FetchResponse(p, outcome, b) ==
    /\ pc[p] = "fetch"
    /\ UNCHANGED <<invocations, uiVars, pos>>
    /\ IF outcome = "ok"
       THEN \* const reader = response.body.getReader()
            /\ pc' = [pc EXCEPT ![p] = "read"]
            /\ body' = [body EXCEPT ![p] = b]
            /\ reader' = [reader EXCEPT ![p] = "open"]
            /\ UNCHANGED <<chatVars, streamVars, textInput, message, lines, caller,
                           sent, obsVars>>
       ELSE \* fetch rejects, or !response.ok throws
            /\ body' = body
            /\ reader' = reader
            /\ HandleSendMessageError(p)

\* The places where the transport cuts the body into chunks: at the end of
\* the body, after a "\n", and at these offsets in a line (right after
\* 'data: ', inside the payload, and between the two bytes of "é" in a
\* content frame).
CutOffsets == {6, 10, 19}
RECURSIVE LineStart(_, _)
LineStart(b, k) == IF k = 0 \/ b[k] = NL THEN k ELSE LineStart(b, k - 1)
CanCut(b, k) ==
    IF k = Len(b) \/ b[k] = NL THEN TRUE
    ELSE (k - LineStart(b, k)) \in CutOffsets

\* Two variants of RunLines with a plausible slip each: one leaves the loop
\* at the first frame that does not parse, one overwrites the accumulated
\* response with the delta.
RECURSIVE RunLinesAbortOnThrow(_, _)
RunLinesAbortOnThrow(ls, st) ==
    IF ls = <<>> THEN [stop |-> "end", rest |-> <<>>, st |-> st]
    ELSE LET e == LineEffect(Head(ls))
         IN IF e.type \in {"skip", "nop"} THEN RunLinesAbortOnThrow(Tail(ls), st)
            ELSE IF e.type = "throw"
            THEN [stop |-> "end", rest |-> <<>>, st |-> [st EXCEPT !.log = @ + 1]]
            ELSE IF e.type = "delta"
            THEN RunLinesAbortOnThrow(Tail(ls),
                          [st EXCEPT !.response = @ \o e.text,
                                     !.content = st.response \o e.text,
                                     !.applied = @ \o e.text,
                                     !.events = Append(@, "delta")])
            ELSE [stop |-> "done", rest |-> Tail(ls), st |-> st]

RECURSIVE RunLinesOverwrite(_, _)
RunLinesOverwrite(ls, st) ==
    IF ls = <<>> THEN [stop |-> "end", rest |-> <<>>, st |-> st]
    ELSE LET e == LineEffect(Head(ls))
         IN IF e.type \in {"skip", "nop"} THEN RunLinesOverwrite(Tail(ls), st)
            ELSE IF e.type = "throw"
            THEN RunLinesOverwrite(Tail(ls), [st EXCEPT !.log = @ + 1])
            ELSE IF e.type = "delta"
            THEN RunLinesOverwrite(Tail(ls),
                          [st EXCEPT !.response = e.text,
                                     !.content = e.text,
                                     !.applied = @ \o e.text,
                                     !.events = Append(@, "delta")])
            ELSE [stop |-> "done", rest |-> Tail(ls), st |-> st]

\* `for (const line of lines) {...}` over the lines ls, from the loop state
\* st = [response, content, log, applied, events]: the fields the loop
\* changes before it reaches a done frame (state.currentStreamResponse, the
\* content of the streamed message, the errors logged by the inner catch,
\* and the observations). It stops at the first done frame.
RECURSIVE RunLines(_, _)
RunLines(ls, st) ==
    IF ls = <<>> THEN [stop |-> "end", rest |-> <<>>, st |-> st]
    ELSE LET e == LineEffect(Head(ls))
         IN IF e.type \in {"skip", "nop"} THEN RunLines(Tail(ls), st)
            ELSE IF e.type = "throw"
            THEN \* catch (e) { console.error('Error parsing stream data:', e) }
                 RunLines(Tail(ls), [st EXCEPT !.log = @ + 1])
            ELSE IF e.type = "delta"
            THEN \* state.currentStreamResponse += parsed.content;
                 \* updateStreamingMessage(state.currentStreamResponse, ...)
                 RunLines(Tail(ls),
                          [st EXCEPT !.response = @ \o e.text,
                                     !.content = st.response \o e.text,
                                     !.applied = @ \o e.text,
                                     !.events = Append(@, "delta")])
            ELSE [stop |-> "done", rest |-> Tail(ls), st |-> st]

\* The loop state when call p enters or re-enters the for-loop.
LoopState(p) ==
    [response |-> currentStreamResponse,
     content |-> IF currentStreamMessage # 0
                 THEN streamContent[currentStreamMessage] ELSE <<>>,
     log |-> errorLog,
     applied |-> applied[p],
     events |-> events[p]]

\* Call p runs the for-loop over ls from st and stops at the next await: the next
\* reader.read(), or the saveChatToBackend of the done branch; without a
\* chat to save the done branch returns at once.
Loop(p, ls, st) ==
    \E r \in {RunLines(ls, st)} :
       /\ errorLog' = r.st.log
       /\ applied' = [applied EXCEPT ![p] = r.st.applied]
       /\ streamContent' =
            IF currentStreamMessage # 0
            THEN [streamContent EXCEPT ![currentStreamMessage] = r.st.content]
            ELSE streamContent
       /\ currentChatId' = currentChatId
       /\ IF r.stop = "end"
          THEN /\ currentStreamResponse' = r.st.response
               /\ events' = [events EXCEPT ![p] = r.st.events]
               /\ lines' = [lines EXCEPT ![p] = <<>>]
               /\ pc' = [pc EXCEPT ![p] = "read"]
               /\ UNCHANGED <<chats, isWaitingForResponse, isStreaming,
                              currentStreamMessage>>
          ELSE \* if (parsed.done) {...}
               /\ isStreaming' = FALSE
               /\ isWaitingForResponse' = FALSE
               /\ events' = [events EXCEPT ![p] = Append(r.st.events, "completion")]
               /\ IF currentChatId # Null /\ currentStreamMessage # 0
                     /\ HasChat(chats, currentChatId)
                  THEN \* push, then await saveChatToBackend(chat)
                       /\ chats' = Push(chats, currentChatId,
                                         StreamMsgRef(currentStreamMessage, p))
                       /\ currentStreamResponse' = r.st.response
                       /\ lines' = [lines EXCEPT ![p] = r.rest]
                       /\ pc' = [pc EXCEPT ![p] = "doneSave"]
                       /\ UNCHANGED currentStreamMessage
                  ELSE /\ currentStreamMessage' = 0
                       /\ currentStreamResponse' = <<>>
                       /\ lines' = [lines EXCEPT ![p] = <<>>]
                       /\ pc' = [pc EXCEPT ![p] = "returned"]
                       /\ UNCHANGED chats

\* The lines of a chunk, last first.
RECURSIVE Reverse(_)
Reverse(ls) == IF ls = <<>> THEN <<>> ELSE Append(Reverse(Tail(ls)), Head(ls))

\* A variant of ReadChunk with a plausible slip: the lines of a chunk are
\* handed to callbacks that run in no fixed order.
ReadChunkAnyOrder(p, to) ==
    /\ pc[p] = "read"
    /\ to \in (pos[p] + 1)..Len(body[p])
    /\ CanCut(body[p], to)
    /\ pos' = [pos EXCEPT ![p] = to]
    /\ \E ls \in {Split(Decode(SubSeq(body[p], pos[p] + 1, to)))} :
       \E st \in {LoopState(p)} : Loop(p, ls, st) \/ Loop(p, Reverse(ls), st)
    /\ UNCHANGED <<textInput, invocations, uiVars, message, caller, sent, body, reader>>

\* `await reader.read()` delivers the bytes up to the cut at `to` as a
\* chunk; the chunk is decoded, split into lines, and the lines are handled.
ReadChunk(p, to) ==
    /\ pc[p] = "read"
    /\ to \in (pos[p] + 1)..Len(body[p])
    /\ CanCut(body[p], to)
    /\ pos' = [pos EXCEPT ![p] = to]
    /\ \E ls \in {Split(Decode(SubSeq(body[p], pos[p] + 1, to)))} :
       \E st \in {LoopState(p)} : Loop(p, ls, st)
    /\ UNCHANGED <<textInput, invocations, uiVars, message, caller, sent, body, reader>>

\* A variant of ReadDone with a plausible slip: the end of the body is taken
\* for a completion, and the streamed message is pushed into the chat.
ReadDoneSynthesizes(p) ==
    /\ pc[p] = "read"
    /\ pos[p] = Len(body[p])
    /\ pc' = [pc EXCEPT ![p] = "returned"]
    /\ reader' = [reader EXCEPT ![p] = "closed"]
    /\ events' = [events EXCEPT ![p] = Append(@, "completion")]
    /\ chats' = IF HasChat(chats, currentChatId) /\ currentStreamMessage # 0
                THEN Push(chats, currentChatId, StreamMsgRef(currentStreamMessage, p))
                ELSE chats
    /\ isStreaming' = FALSE
    /\ isWaitingForResponse' = FALSE
    /\ UNCHANGED <<currentChatId, currentStreamResponse, currentStreamMessage,
                   streamContent, textInput, invocations, uiVars, message, lines,
                   caller, sent, body, pos, errorLog, applied>>

\* `await reader.read()` reports the end of the body: break, and sendMessage
\* returns.
ReadDone(p) ==
    /\ pc[p] = "read"
    /\ pos[p] = Len(body[p])
    /\ pc' = [pc EXCEPT ![p] = "returned"]
    /\ reader' = [reader EXCEPT ![p] = "closed"]
    /\ UNCHANGED <<chatVars, streamVars, textInput, invocations, uiVars, message, lines,
                   caller, sent, body, pos, obsVars>>

\* `await reader.read()` rejects; the body is lost.
ReadFail(p) ==
    /\ pc[p] = "read"
    /\ body' = [body EXCEPT ![p] = <<>>]
    /\ pos' = [pos EXCEPT ![p] = 0]
    /\ reader' = [reader EXCEPT ![p] = "errored"]
    /\ UNCHANGED <<invocations, uiVars>>
    /\ HandleSendMessageError(p)


\* The done branch resumes from `await saveChatToBackend(chat)`. The await
\* is inside the try of the line loop: a failed save lands in its catch,
\* which logs it, and the loop goes on with the next line.
DoneSaved(p, ok) ==
    /\ pc[p] = "doneSave"
    /\ UNCHANGED <<textInput, invocations, uiVars, message, caller, sent, netVars>>
    /\ IF ok
       THEN /\ currentStreamMessage' = 0
            /\ currentStreamResponse' = <<>>
            /\ lines' = [lines EXCEPT ![p] = <<>>]
            /\ pc' = [pc EXCEPT ![p] = "returned"]
            /\ UNCHANGED <<chatVars, isWaitingForResponse, isStreaming,
                           streamContent, obsVars>>
       ELSE Loop(p, lines[p], [LoopState(p) EXCEPT !.log = @ + 1,
                                                    !.events = Append(@, "saveFailed")])

\* handleSendMessageError resumes from `await saveChatToBackend(chat)`; a
\* failed save rejects it before the two resets.
ErrSaved(p, ok) ==
    /\ pc[p] = "errSave"
    /\ UNCHANGED <<chatVars, textInput, invocations, uiVars, message, lines, caller, sent,
                   netVars, isWaitingForResponse, isStreaming, streamContent, obsVars>>
    /\ IF ok
       THEN /\ currentStreamMessage' = 0
            /\ currentStreamResponse' = <<>>
            /\ pc' = [pc EXCEPT ![p] = "returned"]
       ELSE /\ pc' = [pc EXCEPT ![p] = "rejected"]
            /\ UNCHANGED <<currentStreamMessage, currentStreamResponse>>

\* The bodies with whole content and done frames only, and their ends of line.
CoreLines ==
    {DataPrefix \o Stringify(v) : v \in {w \in JsonValues : w.content \notin {<<>>, <<"é">>}
                                                            \/ w.done}}
RECURSIVE CoreBodiesOf(_)
CoreBodiesOf(n) ==
    IF n = 0 THEN {<<>>}
    ELSE LET shorter == CoreBodiesOf(n - 1)
         IN shorter \cup {b \o Encode(l) \o <<NL>> : b \in shorter, l \in CoreLines}
CoreBodies == CoreBodiesOf(MaxCoreLines)
LineEnds(b) == {k \in 1..Len(b) : b[k] = NL}

\* Two sendMessage calls, with or without a chat at the start; the endpoint
\* answers with well-formed frames, delivered line by line.
Next ==
    \/ \E t \in Inputs : TypeText(t)
    \/ \E p \in Procs : SendMessage(p)
    \/ \E p \in Procs, ok \in BOOLEAN : CreateSaved(p, ok)
    \/ \E p \in Procs, ok \in BOOLEAN : AddSaved(p, ok)
    \/ \E p \in Procs : pc[p] = "fetch" /\ \E b \in CoreBodies : FetchResponse(p, "ok", b)
    \/ \E p \in Procs, o \in {"httpError", "reject"} : FetchResponse(p, o, <<>>)
    \/ \E p \in Procs : \E to \in LineEnds(body[p]) : ReadChunk(p, to)
    \/ \E p \in Procs : ReadDone(p)
    \/ \E p \in Procs : ReadFail(p)
    \/ \E p \in Procs, ok \in BOOLEAN : DoneSaved(p, ok)
    \/ \E p \in Procs, ok \in BOOLEAN : ErrSaved(p, ok)

Init == InitWith(Procs)
Spec == Init /\ [][Next]_vars

\* One sendMessage call in a loaded chat; the endpoint answers with any of
\* the bodies, cut into chunks at any of the cut points.
NextStream ==
    \/ \E t \in Inputs : TypeText(t)
    \/ SendMessage(1)
    \/ \E ok \in BOOLEAN : AddSaved(1, ok)
    \/ pc[1] = "fetch" /\ \E b \in Bodies : FetchResponse(1, "ok", b)
    \/ \E o \in {"httpError", "reject"} : FetchResponse(1, o, <<>>)
    \/ \E to \in 1..Len(body[1]) : ReadChunk(1, to)
    \/ ReadDone(1)
    \/ ReadFail(1)
    \/ \E ok \in BOOLEAN : DoneSaved(1, ok)
    \/ \E ok \in BOOLEAN : ErrSaved(1, ok)

InitStream == InitWith({1}) /\ currentChatId = "c1"
SpecStream == InitStream /\ [][NextStream]_vars

\* A promise that call p awaits settles: a save, the fetch, or a read
\* resolves or rejects. The event loop then resumes the call; the user, for
\* their part, need not do anything.
Settle(p) ==
    \/ \E ok \in BOOLEAN : AddSaved(p, ok)
    \/ pc[p] = "fetch" /\ \E b \in Bodies : FetchResponse(p, "ok", b)
    \/ \E o \in {"httpError", "reject"} : FetchResponse(p, o, <<>>)
    \/ \E to \in 1..Len(body[p]) : ReadChunk(p, to)
    \/ ReadDone(p)
    \/ ReadFail(p)
    \/ \E ok \in BOOLEAN : DoneSaved(p, ok)
    \/ \E ok \in BOOLEAN : ErrSaved(p, ok)
FairSpecStream == SpecStream /\ WF_vars(Settle(1))

\* One sendMessage call, with or without a chat at the start; well-formed
\* frames, delivered in chunks of whole lines.
InitSingle == InitWith({1})
SpecSingle == InitSingle /\ [][Next]_vars

\* --------------------------------------------------- the user moves about
\* Another chat of the sidebar, as the backend stores it, and the id of the
\* chat the new-chat button creates.
StoredChat == <<Msg("user", <<"a">>, 0), Msg("assistant", <<"a">>, 0)>>
UserChatId == "c3"
\* state.chats.delete(c)
RemoveChat(cs, c) == [x \in DOMAIN cs \ {c} |-> cs[x]]

\* Observation: when the current chat changes under a call whose request is
\* in flight (it awaits fetch or reads the body), "abandoned" is noted for
\* that call, once.
Abandon(changed) ==
    [p \in Procs |->
        IF /\ changed
           /\ pc[p] \in {"fetch", "read"}
           /\ \A i \in DOMAIN events[p] : events[p][i] # "abandoned"
        THEN Append(events[p], "abandoned") ELSE events[p]]

\* loadChat(c) resumes from `await getChatFromBackend(c)`, after a click on
\* chat c of the sidebar; the chat is loaded while the list in memory is the
\* one the backend stores.
LoadChat(c, found) ==
    /\ HasChat(chats, c)
    /\ chats[c] = StoredChat
    /\ IF found
       THEN /\ chats' = SetChat(chats, c, StoredChat)
            /\ currentChatId' = c
            /\ events' = Abandon(currentChatId # c)
       ELSE UNCHANGED <<chatVars, events>>
    /\ UNCHANGED <<streamVars, textInput, invocations, uiVars, pc, message, lines, caller,
                   sent, netVars, errorLog, applied>>

\* createNewChat(), from the new-chat button, resumes from
\* `await saveChatToBackend(chat)`.
CreateNewChat(ok) ==
    /\ ~HasChat(chats, UserChatId)
    /\ IF ok
       THEN /\ chats' = SetChat(chats, UserChatId, <<>>)
            /\ currentChatId' = UserChatId
            /\ events' = Abandon(TRUE)
       ELSE UNCHANGED <<chatVars, events>>
    /\ UNCHANGED <<streamVars, textInput, invocations, uiVars, pc, message, lines, caller,
                   sent, netVars, errorLog, applied>>

\* deleteChat(c), confirmed, resumes from `await deleteChatFromBackend(c)`.
DeleteChat(c, ok) ==
    /\ HasChat(chats, c)
    /\ IF ok
       THEN /\ chats' = RemoveChat(chats, c)
            /\ currentChatId' = IF currentChatId = c THEN Null ELSE currentChatId
            /\ events' = Abandon(currentChatId = c)
       ELSE UNCHANGED <<chatVars, events>>
    /\ UNCHANGED <<streamVars, textInput, invocations, uiVars, pc, message, lines, caller,
                   sent, netVars, errorLog, applied>>

\* One sendMessage call, in a chat with no message yet, while the user loads
\* the other chat, creates a chat or deletes one; the endpoint answers with
\* well-formed frames, delivered line by line.
NextNav ==
    \/ \E t \in Inputs : TypeText(t)
    \/ SendMessage(1)
    \/ \E ok \in BOOLEAN : CreateSaved(1, ok)
    \/ \E ok \in BOOLEAN : AddSaved(1, ok)
    \/ pc[1] = "fetch" /\ \E b \in CoreBodies : FetchResponse(1, "ok", b)
    \/ \E o \in {"httpError", "reject"} : FetchResponse(1, o, <<>>)
    \/ \E to \in LineEnds(body[1]) : ReadChunk(1, to)
    \/ ReadDone(1)
    \/ ReadFail(1)
    \/ \E ok \in BOOLEAN : DoneSaved(1, ok)
    \/ \E ok \in BOOLEAN : ErrSaved(1, ok)
    \/ \E found \in BOOLEAN : LoadChat("c2", found)
    \/ \E ok \in BOOLEAN : CreateNewChat(ok)
    \/ \E c \in DOMAIN chats, ok \in BOOLEAN : DeleteChat(c, ok)

InitNav ==
    /\ currentChatId = "c1"
    /\ chats = [c \in {"c1", "c2"} |-> IF c = "c1" THEN <<>> ELSE StoredChat]
    /\ InitCalls({1})
    /\ InitUi
SpecNav == InitNav /\ [][NextNav]_vars

\* ------------------------------------------------ the chats are loaded
\* What GET /api/chats lists: nothing, or the stored chat.
ChatLists == {<<>>, <<"c2">>}

\* loadChatsFromBackend() resumes from `await fetch(.../api/chats)` and
\* `await response.json()`: with the list it replaces state.chats by a new
\* Map and awaits the first getChatFromBackend; when the fetch failed its
\* catch replaces state.chats by a new Map.
LoadChatsListed(ok, list) ==
    /\ loading.at = "list"
    /\ chats' = <<>>
    /\ loading' = IF ok /\ list # <<>> THEN Loader("chat", Head(list))
                  ELSE Loader("done", Null)
    /\ UNCHANGED <<currentChatId, streamVars, textInput, invocations, pc, message,
                   lines, caller, sent, netVars, obsVars, musicVars, dragVars>>

\* Its loop resumes from `await getChatFromBackend(id)`; after the loop, with
\* a chat in state.chats, it awaits loadChat of the first one (the order of
\* the Map is not kept here: any chat of it may be the first).
LoadChatsGot(found) ==
    /\ loading.at = "chat"
    /\ chats' = IF found THEN SetChat(chats, loading.chat, StoredChat) ELSE chats
    /\ \E first \in DOMAIN chats' \cup {Null} :
           /\ (first = Null) = (DOMAIN chats' = {})
           /\ loading' = IF first = Null THEN Loader("done", Null)
                         ELSE Loader("first", first)
    /\ UNCHANGED <<currentChatId, streamVars, textInput, invocations, pc, message,
                   lines, caller, sent, netVars, obsVars, musicVars, dragVars>>

\* The loadChat it awaits resumes from its `await getChatFromBackend(id)`;
\* the backend has the chat as long as it was not deleted.
LoadChatsFirst(found) ==
    /\ loading.at = "first"
    /\ found => HasChat(chats, loading.chat)
    /\ loading' = Loader("done", Null)
    /\ currentChatId' = IF found THEN loading.chat ELSE currentChatId
    /\ events' = Abandon(found /\ currentChatId # loading.chat)
    /\ UNCHANGED <<chats, streamVars, textInput, invocations, pc, message, lines,
                   caller, sent, netVars, errorLog, applied, musicVars, dragVars>>

\* The page has just been opened: no chat yet, loadChatsFromBackend() awaits
\* the list; the user may already send a message and use the sidebar.
NextChats ==
    \/ NextNav
    \/ \E ok \in BOOLEAN, list \in ChatLists : LoadChatsListed(ok, list)
    \/ \E found \in BOOLEAN : LoadChatsGot(found)
    \/ \E found \in BOOLEAN : LoadChatsFirst(found)

InitChats ==
    /\ currentChatId = Null
    /\ chats = <<>>
    /\ InitCalls({1})
    /\ loading = Loader("list", Null)
    /\ InitMusic
    /\ InitDrag(<<2, 2>>, <<1, 1>>, <<0, 0>>)
SpecChats == InitChats /\ [][NextChats]_vars


\* Two sendMessage calls, with or without a chat at the start; the endpoint
\* answers with short streams of well-formed frames.
MaxPairLines == 1
PairBodies == CoreBodiesOf(MaxPairLines)
NextPair ==
    \/ \E t \in Inputs : TypeText(t)
    \/ \E p \in Procs : SendMessage(p)
    \/ \E p \in Procs, ok \in BOOLEAN : CreateSaved(p, ok)
    \/ \E p \in Procs, ok \in BOOLEAN : AddSaved(p, ok)
    \/ \E p \in Procs : pc[p] = "fetch" /\ \E b \in PairBodies : FetchResponse(p, "ok", b)
    \/ \E p \in Procs, o \in {"httpError", "reject"} : FetchResponse(p, o, <<>>)
    \/ \E p \in Procs : \E to \in LineEnds(body[p]) : ReadChunk(p, to)
    \/ \E p \in Procs : ReadDone(p)
    \/ \E p \in Procs : ReadFail(p)
    \/ \E p \in Procs, ok \in BOOLEAN : DoneSaved(p, ok)
    \/ \E p \in Procs, ok \in BOOLEAN : ErrSaved(p, ok)
SpecPair == Init /\ [][NextPair]_vars

\* --------------------------------------------------------- the music player
MaxTracks == 3
MaxLoads == 1
Filenames == <<"t1", "t2", "t3", "t4">>
\* What GET /api/music/library answers: the first n files of the directory.
Libraries == {SubSeq(Filenames, 1, n) : n \in 0..MaxTracks}

\* closeMusicModal()
CloseMusicModal ==
    /\ musicModalActive' = FALSE
    /\ UNCHANGED <<availableMusicTracks, currentTrackIndex, miniPlayerHidden,
                   minimizedPlayerHidden, audioPaused, audioCurrentTime, musicList,
                   musicLoading, chatPage, dragVars>>

\* openMusicModal(): loadMusicLibrary() runs up to its `await fetch`, the
\* modal is shown.
OpenMusicModal ==
    /\ musicLoading < MaxLoads
    /\ musicLoading' = musicLoading + 1
    /\ musicModalActive' = TRUE
    /\ UNCHANGED <<availableMusicTracks, currentTrackIndex, miniPlayerHidden,
                   minimizedPlayerHidden, audioPaused, audioCurrentTime, musicList,
                   chatPage, dragVars>>

\* loadMusicLibrary() resumes from its awaits with the answer: the list is
\* emptied; with no track it shows a note and returns, else it replaces
\* state.availableMusicTracks and shows the tracks. A failed fetch shows an
\* error instead of the list.
LoadMusicLibrary(ok, tracks) ==
    /\ musicLoading > 0
    /\ musicLoading' = musicLoading - 1
    /\ IF ok /\ tracks # <<>>
       THEN availableMusicTracks' = tracks /\ musicList' = tracks
       ELSE availableMusicTracks' = availableMusicTracks /\ musicList' = <<>>
    /\ UNCHANGED <<currentTrackIndex, miniPlayerHidden, minimizedPlayerHidden,
                   musicModalActive, audioPaused, audioCurrentTime, chatPage, dragVars>>

\* playTrack(filename, trackIndex) with trackIndex # -1: the modal is closed,
\* the index is set, the mini player is shown and the minimized one hidden,
\* the audio gets its new source and play() is called.
PlayTrack(trackIndex) ==
    /\ musicModalActive' = FALSE
    /\ currentTrackIndex' = trackIndex
    /\ miniPlayerHidden' = FALSE
    /\ minimizedPlayerHidden' = TRUE
    /\ audioPaused' = FALSE
    /\ audioCurrentTime' = 0
    /\ UNCHANGED <<availableMusicTracks, musicList, musicLoading, chatPage, dragVars>>

\* A click on the track at place index of the list in the modal.
ClickTrack(index) ==
    /\ musicModalActive
    /\ index \in 0..(Len(musicList) - 1)
    /\ PlayTrack(index)

\* What playNextTrack() and playPreviousTrack() do once the index is moved
\* to i: they read state.availableMusicTracks[i] and its filename, which
\* throws a TypeError when there is no such element, and call playTrack.
PlayAt(i) ==
    IF i \in 0..(Len(availableMusicTracks) - 1)
    THEN PlayTrack(i)
    ELSE /\ currentTrackIndex' = i
         /\ UNCHANGED <<availableMusicTracks, miniPlayerHidden, minimizedPlayerHidden,
                        musicModalActive, audioPaused, audioCurrentTime, musicList,
                        musicLoading, chatPage, dragVars>>

\* playPreviousTrack(), from the previous button of the mini player.
PlayPreviousTrack ==
    /\ ~miniPlayerHidden
    /\ availableMusicTracks # <<>>
    /\ PlayAt(IF currentTrackIndex - 1 < 0 THEN Len(availableMusicTracks) - 1
              ELSE currentTrackIndex - 1)

\* playNextTrack(), from the next button of the mini player or from the
\* 'ended' event of the audio.
PlayNextTrack ==
    /\ ~miniPlayerHidden \/ ~audioPaused
    /\ availableMusicTracks # <<>>
    /\ PlayAt(IF currentTrackIndex + 1 >= Len(availableMusicTracks) THEN 0
              ELSE currentTrackIndex + 1)

\* The audio plays on: currentTime is above 0.
TimeUpdate ==
    /\ ~audioPaused
    /\ audioCurrentTime = 0
    /\ audioCurrentTime' = 1
    /\ UNCHANGED <<availableMusicTracks, currentTrackIndex, miniPlayerHidden,
                   minimizedPlayerHidden, musicModalActive, audioPaused, musicList,
                   musicLoading, chatPage, dragVars>>

\* togglePlayPause(), from the button of the mini player.
TogglePlayPause ==
    /\ ~miniPlayerHidden
    /\ audioPaused' = ~audioPaused
    /\ UNCHANGED <<availableMusicTracks, currentTrackIndex, miniPlayerHidden,
                   minimizedPlayerHidden, musicModalActive, audioCurrentTime, musicList,
                   musicLoading, chatPage, dragVars>>

\* stopMusic(), from the stop button: pause, and back to the start.
StopMusic ==
    /\ ~miniPlayerHidden
    /\ audioPaused' = TRUE
    /\ audioCurrentTime' = 0
    /\ UNCHANGED <<availableMusicTracks, currentTrackIndex, miniPlayerHidden,
                   minimizedPlayerHidden, musicModalActive, musicList, musicLoading,
                   chatPage, dragVars>>

\* closePlayer(), from the close button of either player: stopMusic(), then
\* both players are hidden.
ClosePlayer ==
    /\ ~miniPlayerHidden \/ ~minimizedPlayerHidden
    /\ audioPaused' = TRUE
    /\ audioCurrentTime' = 0
    /\ miniPlayerHidden' = TRUE
    /\ minimizedPlayerHidden' = TRUE
    /\ UNCHANGED <<availableMusicTracks, currentTrackIndex, musicModalActive, musicList,
                   musicLoading, chatPage, dragVars>>

\* minimizePlayer(), from the mini player.
MinimizePlayer ==
    /\ ~miniPlayerHidden
    /\ miniPlayerHidden' = TRUE
    /\ minimizedPlayerHidden' = FALSE
    /\ UNCHANGED <<availableMusicTracks, currentTrackIndex, musicModalActive,
                   audioPaused, audioCurrentTime, musicList, musicLoading, chatPage,
                   dragVars>>

\* restorePlayer(), from the minimized player.
RestorePlayer ==
    /\ ~minimizedPlayerHidden
    /\ miniPlayerHidden' = FALSE
    /\ minimizedPlayerHidden' = TRUE
    /\ UNCHANGED <<availableMusicTracks, currentTrackIndex, musicModalActive,
                   audioPaused, audioCurrentTime, musicList, musicLoading, chatPage,
                   dragVars>>

\* minimizeMusicModal(), from the modal: closeMusicModal(), and the
\* minimized player is shown when the audio plays or has played.
MinimizeMusicModal ==
    /\ musicModalActive
    /\ musicModalActive' = FALSE
    /\ minimizedPlayerHidden' =
         IF ~audioPaused \/ audioCurrentTime > 0 THEN FALSE ELSE minimizedPlayerHidden
    /\ UNCHANGED <<availableMusicTracks, currentTrackIndex, miniPlayerHidden,
                   audioPaused, audioCurrentTime, musicList, musicLoading, chatPage,
                   dragVars>>

\* The user at the music player; the chat is left alone.
NextMusic ==
    \/ OpenMusicModal
    \/ musicModalActive /\ CloseMusicModal
    \/ MinimizeMusicModal
    \/ \E ok \in BOOLEAN, tracks \in Libraries : LoadMusicLibrary(ok, tracks)
    \/ \E index \in 0..(MaxTracks - 1) : ClickTrack(index)
    \/ PlayPreviousTrack
    \/ PlayNextTrack
    \/ TimeUpdate
    \/ TogglePlayPause
    \/ StopMusic
    \/ ClosePlayer
    \/ MinimizePlayer
    \/ RestorePlayer

InitPlayer ==
    /\ currentChatId = Null
    /\ chats = <<>>
    /\ InitCalls({})
    /\ InitUi
SpecMusic == InitPlayer /\ [][NextMusic]_vars


\* ------------------------------------------------------ the floating panels
MaxCoord == 2
\* Where a panel can lie before it is dragged: off the viewport too.
Coords == (0 - 1)..MaxCoord
\* Where the pointer can be: clientX and clientY of the event.
Pointers == (0..MaxCoord) \X (0..MaxCoord)
\* Widths and heights of the viewport and of a panel.
Sizes == 1..MaxCoord
Points == Coords \X Coords
Extents == Sizes \X Sizes

Min(a, b) == IF a < b THEN a ELSE b
Max(a, b) == IF a > b THEN a ELSE b

\* A variant of Bounded that takes the maximum before the minimum.
BoundedMinLast(new, max) == Min(Max(0, new), max)

\* Math.max(0, Math.min(newX, maxX))
Bounded(new, max) == Max(0, Min(new, max))

\* startDrag(e) on the panel (or on the handle of the modal): the place of
\* the panel and of the pointer are kept.
StartDrag(pointer) ==
    /\ isDragging' = TRUE
    /\ dragInitial' = panelPos
    /\ dragStart' = pointer
    /\ UNCHANGED <<panelPos, viewport, panelSize, chatPage, musicVars>>

\* drag(e), on mousemove and touchmove: nothing unless a drag is on; else
\* the panel is moved by what the pointer moved, kept within the viewport.
Drag(current) ==
    /\ isDragging
    /\ panelPos' = <<Bounded(dragInitial[1] + (current[1] - dragStart[1]),
                               viewport[1] - panelSize[1]),
                      Bounded(dragInitial[2] + (current[2] - dragStart[2]),
                               viewport[2] - panelSize[2])>>
    /\ UNCHANGED <<isDragging, dragStart, dragInitial, viewport, panelSize,
                   chatPage, musicVars>>

\* stopDrag(), on mouseup and touchend.
StopDrag ==
    /\ isDragging
    /\ isDragging' = FALSE
    /\ UNCHANGED <<dragStart, dragInitial, panelPos, viewport, panelSize,
                   chatPage, musicVars>>

\* The pointer at one panel.
NextDrag ==
    \/ \E pointer \in Pointers : StartDrag(pointer)
    \/ \E current \in Pointers : Drag(current)
    \/ StopDrag

\* Any viewport, any panel, lying anywhere.
InitPanel ==
    /\ currentChatId = Null
    /\ chats = <<>>
    /\ InitCalls({})
    /\ loading = Loader("done", Null)
    /\ InitMusic
    /\ \E vp \in Extents, sz \in Extents, at \in Points : InitDrag(vp, sz, at)
SpecDrag == InitPanel /\ [][NextDrag]_vars


\* ================================================================== claims
\* What a line is, told from its text alone.
IsFrame(l) == StartsWith(l, DataPrefix)
Payload(l) == Slice(l, 6)
IsSentinel(l) == IsFrame(l) /\ Payload(l) \in {<<>>, DoneSentinel}
DoneFrameLines == {DataPrefix \o Stringify(v) : v \in {w \in JsonValues : w.done}}
ContentFrameLines == {DataPrefix \o Stringify(v) : v \in {w \in JsonValues : ~w.done}}
ContentOfLine ==
    [l \in ContentFrameLines |->
        (CHOOSE v \in JsonValues : ~v.done /\ l = DataPrefix \o Stringify(v)).content]
IsBadFrame(l) ==
    IsFrame(l) /\ ~IsSentinel(l) /\ l \notin (DoneFrameLines \cup ContentFrameLines)
IsDoneFrame(l) == l \in DoneFrameLines
FrameContent(l) == IF l \in ContentFrameLines THEN ContentOfLine[l] ELSE <<>>
HasDone(ls) == \E i \in DOMAIN ls : IsDoneFrame(ls[i])
RECURSIVE ContentsOf(_)
ContentsOf(ls) ==
    IF ls = <<>> THEN <<>> ELSE FrameContent(Head(ls)) \o ContentsOf(Tail(ls))
Count(ev, seq) == Cardinality({i \in DOMAIN seq : seq[i] = ev})

\* The loop state of a fresh call, and the line loop run once over a whole
\* text as a single chunk.
FreshLoop == [response |-> <<>>, content |-> <<>>, log |-> 0, applied |-> <<>>,
              events |-> <<>>]
OneChunk(b) == RunLines(Split(Decode(b)), FreshLoop)
\* The lines of a text that are ended by a "\n".
CompleteLines(text) == LET segs == Split(text) IN Take(segs, Len(segs) - 1)

\* Call p has left the read loop by the end of the body or by a done frame,
\* with no failure of the transport or of a save on its way.
EndedCleanly(p) ==
    /\ pc[p] = "returned"
    /\ message[p] # <<>>
    /\ Count("error", events[p]) = 0
    /\ Count("saveFailed", events[p]) = 0

\* C1: chunk-boundary invariance. When a call has consumed a body, however it
\* was cut into chunks, the deltas it appended, concatenated, and whether it
\* reached completion are those of the same body delivered as one chunk.
C1_ChunkBoundaryInvariance ==
    \A p \in Procs :
        EndedCleanly(p) =>
            /\ applied[p] = OneChunk(body[p]).st.applied
            /\ (Count("completion", events[p]) > 0) = (OneChunk(body[p]).stop = "done")

\* C2: a done frame is the end. The deltas that precede it are applied in
\* arrival order, then the completion step runs, once, and the call ends:
\* after a completion the call only waits for its save or has returned, no
\* delta and no second completion follows it, and a call that ends cleanly on
\* a body with a done frame has completed once, with the deltas of the body
\* applied in order.
C2_CompletionOnceThenEnd ==
    \A p \in Procs :
        /\ \A i \in DOMAIN events[p] :
               events[p][i] = "completion" =>
                   /\ pc[p] \in {"doneSave", "returned"}
                   /\ \A j \in DOMAIN events[p] :
                          j > i => events[p][j] \notin {"delta", "completion"}
        /\ (EndedCleanly(p) /\ HasDone(Split(Decode(body[p])))) =>
               /\ Count("completion", events[p]) = 1
               /\ applied[p] = OneChunk(body[p]).st.applied

\* C3: at most one consumer is active; no second chat request is issued and
\* no second read loop runs while a call awaits its response or reads it.
C3_OneActiveConsumer ==
    Cardinality({p \in Procs : pc[p] \in {"fetch", "read"}}) <= 1

\* C4: a line is handled only once its "\n" has been read. At every await of
\* the read loop, what the call has appended and logged is what the complete
\* lines received so far give; the unfinished last segment has had no effect.
C4_OnlyTerminatedLines ==
    \A p \in Procs :
        (/\ pc[p] = "read"
         /\ Count("completion", events[p]) = 0) =>
            LET r == RunLines(CompleteLines(Decode(Take(body[p], pos[p]))), FreshLoop)
            IN /\ r.stop = "end"
               /\ applied[p] = r.st.applied
               /\ errorLog = r.st.log

\* C5: a done frame ends processing at once. From the completion on, the
\* call reads no further chunk, appends no delta, and the content of the
\* message it pushed does not change.
C5_NothingAfterDone ==
    [][\A p \in Procs :
          Count("completion", events[p]) > 0 =>
              /\ pos'[p] = pos[p]
              /\ applied'[p] = applied[p]
              /\ \A c \in DOMAIN chats : \A i \in DOMAIN chats[c] :
                     (chats[c][i].by = p /\ chats[c][i].obj # 0 /\ c \in DOMAIN chats')
                         => streamContent'[chats[c][i].obj] = streamContent[chats[c][i].obj]
      ]_vars

\* ---- steps of the read loop, seen from outside
\* In this step call p takes from reader.read() the chunk that ends at byte
\* `to` of its body (Cuts(p) is where the step leaves it); the lines of that
\* chunk as the loop sees them; the lines before the first done frame.
Cuts(p) == {pos'[p]}
ReadsChunk(p, to) == pc[p] = "read" /\ to > pos[p] /\ pos'[p] = to
ChunkLines(p, to) == Split(Decode(SubSeq(body[p], pos[p] + 1, to)))
RECURSIVE BeforeDone(_)
BeforeDone(ls) ==
    IF ls = <<>> \/ IsDoneFrame(Head(ls)) THEN <<>>
    ELSE <<Head(ls)>> \o BeforeDone(Tail(ls))
BadFrames(ls) == Cardinality({i \in DOMAIN ls : IsBadFrame(ls[i])})
NotSentinel(l) == ~IsSentinel(l) /\ l # <<>>
FrameOf(v) == Encode(DataPrefix \o Stringify(v)) \o <<NL>>
ContentFrame(c) == FrameOf([kind |-> "content", content |-> c, done |-> FALSE])
DoneFrame == FrameOf([kind |-> "done", content |-> <<>>, done |-> TRUE])
\* The assistant messages call p has put into the chats.
AssistantBy(p) ==
    Cardinality({ci \in UNION {{<<c, i>> : i \in DOMAIN chats[c]} : c \in DOMAIN chats} :
                    /\ chats[ci[1]][ci[2]].role = "assistant"
                    /\ chats[ci[1]][ci[2]].by = p})

\* C6: a frame whose payload is no JSON does not abort the stream. In a chunk
\* with such frames, every content frame before the first done frame, before
\* and after the bad ones, is appended in order, one error is logged for each
\* bad frame, and the error path is not entered; when the chunk has no done
\* frame the loop goes on to the next read with the busy flags, the streamed
\* message and the chats as they were.
C6_MalformedFrameNonFatal ==
    [][\A p \in Procs : \A to \in Cuts(p) :
          ReadsChunk(p, to) =>
              \A ls \in {ChunkLines(p, to)} : \A pre \in {BeforeDone(ls)} :
                  BadFrames(pre) > 0 =>
                      /\ applied'[p] = applied[p] \o ContentsOf(pre)
                      /\ errorLog' = errorLog + BadFrames(pre)
                      /\ Count("error", events'[p]) = Count("error", events[p])
                      /\ Count("delta", events'[p]) - Count("delta", events[p])
                           = Cardinality({i \in DOMAIN pre : FrameContent(pre[i]) # <<>>})
                      /\ ~HasDone(ls) =>
                           /\ pc'[p] = "read"
                           /\ UNCHANGED <<isWaitingForResponse, isStreaming,
                                          currentStreamMessage, chatVars>>
      ]_vars

\* C6 witness: the body 'a' frame, malformed frame, 'é' frame has been read:
\* both deltas are applied, one error is logged, the call is still reading.
C6_Witness ==
    /\ pc[1] = "read"
    /\ body[1] = ContentFrame(<<"a">>) \o Encode(Malformed) \o <<NL>> \o ContentFrame(<<"é">>)
    /\ pos[1] = Len(body[1])
    /\ applied[1] = <<"a", "é">>
    /\ errorLog = 1
    /\ events[1] = <<"delta", "delta">>
    /\ isStreaming

\* The bodies in which no line is a done frame.
BodiesWithoutDone == {b \in Bodies : ~HasDone(Split(Decode(b)))}

\* C7: a frame with an empty or '[DONE]' payload is a no-op. A chunk of
\* such frames changes nothing; when the first other line after them is a
\* done frame the step is one completion, with no delta and no error; and on
\* a body with no done frame, whatever '[DONE]' frames it has, no chunk
\* brings the call to completion: it goes on to the next read.
C7_SentinelIsNoOp ==
    [][\A p \in Procs : \A to \in Cuts(p) :
          ReadsChunk(p, to) =>
              \A ls \in {ChunkLines(p, to)} : \A rest \in {SelectSeq(ls, NotSentinel)} :
                  /\ (\E i \in DOMAIN ls : IsSentinel(ls[i])) =>
                       /\ rest = <<>> =>
                            UNCHANGED <<chatVars, streamVars, textInput, pc, lines, obsVars>>
                       /\ (rest # <<>> /\ IsDoneFrame(Head(rest))) =>
                            /\ events'[p] = Append(events[p], "completion")
                            /\ applied'[p] = applied[p]
                            /\ errorLog' = errorLog
                  /\ body[p] \in BodiesWithoutDone =>
                       /\ Count("completion", events'[p]) = 0
                       /\ pc'[p] = "read"
      ]_vars

\* C7 witness: 'data: [DONE]' then 'data: {"done":true}' has given one
\* completion and no delta.
C7_Witness ==
    /\ body[1] = Encode(DataPrefix \o DoneSentinel) \o <<NL>> \o DoneFrame
    /\ pc[1] = "returned"
    /\ events[1] = <<"completion">>
    /\ applied[1] = <<>>
    /\ errorLog = 0

\* C8: lines that do not begin with 'data: ' are ignored. A chunk with no
\* 'data: ' line changes nothing, and any chunk has the effect of its
\* 'data: ' lines alone: the same deltas, errors and completion.
C8_NonDataLinesIgnored ==
    [][\A p \in Procs : \A to \in Cuts(p) :
          ReadsChunk(p, to) =>
              LET fs == SelectSeq(ChunkLines(p, to), IsFrame)
                  r == RunLines(fs, LoopState(p))
              IN /\ fs = <<>> =>
                      UNCHANGED <<chatVars, streamVars, textInput, pc, lines, obsVars>>
                 /\ applied'[p] = r.st.applied
                 /\ errorLog' = r.st.log
                 /\ events'[p] = IF r.stop = "end" THEN r.st.events
                                  ELSE Append(r.st.events, "completion")
                 /\ (pc'[p] = "read") = (r.stop = "end")
                 /\ r.stop = "end" => currentStreamResponse' = r.st.response
      ]_vars

\* C8 witness: a blank line, then the 'a' frame: the delta is applied, no
\* error is logged.
C8_Witness ==
    /\ pc[1] = "read"
    /\ body[1] = <<NL>> \o ContentFrame(<<"a">>)
    /\ pos[1] = Len(body[1])
    /\ currentStreamResponse = <<"a">>
    /\ errorLog = 0
    /\ isStreaming /\ isWaitingForResponse

\* While a call reads its stream, the accumulated response and the content of
\* its streamed message are the deltas applied so far, concatenated.
ResponseIsApplied ==
    \A p \in Procs :
        (pc[p] = "read" /\ isStreaming) =>
            /\ currentStreamResponse = applied[p]
            /\ streamContent[p] = currentStreamResponse

\* C9: while the request streams, state.currentStreamResponse and the
\* content of the streamed message are the concatenation of the non-empty
\* content fields handled so far, and a chunk appends to it the content
\* fields of its frames, in order (nothing for an empty content).
C9_ResponseIsConcatenation ==
    [][/\ \A p \in Procs : \A to \in Cuts(p) :
            (ReadsChunk(p, to) /\ isStreaming) =>
                \A ls \in {ChunkLines(p, to)} : \A pre \in {BeforeDone(ls)} :
                    /\ streamContent'[p] = currentStreamResponse \o ContentsOf(pre)
                    /\ ~HasDone(ls) =>
                         currentStreamResponse' = currentStreamResponse \o ContentsOf(pre)
       /\ ResponseIsApplied'
      ]_vars

\* C9 witness: the frames 'a', '' and 'é' have been handled; the response
\* is "aé".
C9_Witness ==
    /\ pc[1] = "read"
    /\ isStreaming
    /\ body[1] = ContentFrame(<<"a">>) \o ContentFrame(<<>>) \o ContentFrame(<<"é">>)
    /\ pos[1] = Len(body[1])
    /\ currentStreamResponse = <<"a", "é">>
    /\ streamContent[1] = <<"a", "é">>

\* C10: when reader.read() fails after two deltas, the error path runs once,
\* nothing further is applied (no delta, no completion), and the call has
\* added exactly one assistant message to the chats.
C10_ReadFailureAfterTwoDeltas ==
    \A p \in Procs :
        (Len(events[p]) >= 3 /\ SubSeq(events[p], 1, 3) = <<"delta", "delta", "error">>) =>
            /\ events[p] = <<"delta", "delta", "error">>
            /\ AssistantBy(p) = 1

\* ---- the ends of a request
\* The places of the assistant messages call p has put into the chats.
AssistantPlaces(p) ==
    {ci \in UNION {{<<c, i>> : i \in DOMAIN chats[c]} : c \in DOMAIN chats} :
        /\ chats[ci[1]][ci[2]].role = "assistant"
        /\ chats[ci[1]][ci[2]].by = p}
\* No call but p has got past its guard.
Alone(p) == \A q \in Procs \ {p} : message[q] = <<>>

\* C11: a failed request (fetch rejects, the status is not OK, or read()
\* fails) ends with an assistant message holding the error text in a chat's
\* list, and, no other call having interfered, with both busy flags false.
C11_FailureLeavesErrorMessage ==
    \A p \in Procs :
        (Count("error", events[p]) > 0 /\ pc[p] = "returned") =>
            /\ \E ci \in AssistantPlaces(p) : ContentOf(chats[ci[1]][ci[2]]) = ErrorText
            /\ Alone(p) => (~isStreaming /\ ~isWaitingForResponse)

\* In this step call p leaves the read loop because reader.read() reported
\* the end of the body.
SourceEnds(p) == pc[p] = "read" /\ pc'[p] = "returned" /\ reader'[p] = "closed"

\* C12: when the source ends, sendMessage returns and the step changes
\* nothing else: no error path, no completion, no message appended; and on a
\* body without a done frame the call has then entered no error path, run no
\* completion and put no assistant message into a chat.
C12_SourceEndWithoutDone ==
    [][\A p \in Procs :
          SourceEnds(p) =>
              /\ UNCHANGED <<chatVars, streamVars, textInput, obsVars>>
              /\ body[p] \in BodiesWithoutDone =>
                   /\ Count("error", events'[p]) = 0
                   /\ Count("completion", events'[p]) = 0
                   /\ AssistantBy(p)' = 0
      ]_vars

\* C12 witness: the body 'a' frame, 'é' frame has ended; the call has
\* returned with both deltas applied, no assistant message in the chat, and
\* the busy flags as the stream left them.
C12_Witness ==
    /\ pc[1] = "returned"
    /\ reader[1] = "closed"
    /\ body[1] = ContentFrame(<<"a">>) \o ContentFrame(<<"é">>)
    /\ applied[1] = <<"a", "é">>
    /\ events[1] = <<"delta", "delta">>
    /\ AssistantBy(1) = 0
    /\ Len(chats["c1"]) = 1
    /\ isStreaming

\* C13: no state crosses requests. The content of the message a call
\* streams into (the one that is saved as its reply) is made of the deltas
\* that this call received, or is its error text; and while a call reads
\* with the stream flag set, the accumulated response holds its deltas only.
C13_NoStateAcrossRequests ==
    \A p \in Procs :
        /\ streamContent[p] \in {applied[p], ErrorText}
        /\ (pc[p] = "read" /\ isStreaming /\ currentStreamMessage = p) =>
               currentStreamResponse = applied[p]

\* C14: cancellation. Once the user has left the chat of a request in
\* flight (another chat loaded, a chat created, the current chat deleted),
\* the call takes no further chunk from the reader and applies no further
\* delta, and what it had applied stays.
C14_AbandonStopsReading ==
    [][\A p \in Procs :
          Count("abandoned", events[p]) > 0 =>
              /\ ~(pos'[p] > pos[p])
              /\ applied'[p] = applied[p]
      ]_vars

\* C15: the reader is released on every exit. When sendMessage has ended,
\* the reader it took from the response is not left open: the body was read
\* to its end, or the read failed, or the reader was cancelled.
C15_ReaderReleasedOnExit ==
    \A p \in Procs :
        pc[p] \in {"returned", "rejected"} => reader[p] # "open"

\* A text is a run of consecutive characters of another.
IsPartOf(t, whole) ==
    \E i \in 0..(Len(whole) - Len(t)) : SubSeq(whole, i + 1, i + Len(t)) = t

\* C16: the decoder keeps its state between chunks. The text the call gets
\* from a chunk is a run of characters of the text of the whole body: the
\* bytes of a character cut in two by the chunk boundary give that character,
\* as they do when they arrive in one chunk.
C16_DecoderStatePersists ==
    [][\A p \in Procs : \A to \in Cuts(p) :
          ReadsChunk(p, to) =>
              \A text \in {Decode(SubSeq(body[p], pos[p] + 1, to))} :
                  IsPartOf(text, Decode(body[p]))
      ]_vars

\* ---- determinism
\* What a run of the consumer shows: the deltas applied and their order, the
\* completion or error outcome, the accumulated response, the busy flags,
\* and the chats' message lists with the content of the streamed messages.
Outcome ==
    <<applied, events, errorLog, pc, currentStreamResponse, isStreaming,
      isWaitingForResponse, currentStreamMessage, chats, currentChatId,
      streamContent, lines, pos, reader>>

Ends(p) == message[p] # <<>> /\ pc[p] # "returned" /\ pc'[p] = "returned"
\* In the chats, call p has one user message, and right after it one
\* assistant message, its only one.
OneExchange(p) ==
    /\ AssistantBy(p) = 1
    /\ \E c \in DOMAIN chats : \E i \in 1..(Len(chats[c]) - 1) :
           /\ chats[c][i].role = "user" /\ chats[c][i].by = p
           /\ chats[c][i + 1].role = "assistant" /\ chats[c][i + 1].by = p
    /\ \A c \in DOMAIN chats :
           Cardinality({i \in DOMAIN chats[c] :
                           chats[c][i].role = "user" /\ chats[c][i].by = p}) <= 1

\* C18: the chat history is append-only under the send flow. No step takes
\* a message from a chat's list, moves it, or changes its role or content;
\* and when a send ends it has added one user message followed by exactly
\* one assistant message.
C18_AppendOnlyOneReplyPerSend ==
    [][/\ \A c \in DOMAIN chats :
            /\ c \in DOMAIN chats'
            /\ Len(chats'[c]) >= Len(chats[c])
            /\ \A i \in DOMAIN chats[c] :
                   /\ chats'[c][i].role = chats[c][i].role
                   /\ ContentOf(chats[c][i])' = ContentOf(chats[c][i])
       /\ \A p \in Procs : Ends(p) => OneExchange(p)'
      ]_vars

\* In this step call p builds its request and hands it to fetch.
Posts(p) == ~sent[p].posted /\ sent'[p].posted
\* The {role, content} of the messages before place i of chat c.
HistoryBefore(c, i) ==
    [j \in 1..(i - 1) |-> [role |-> chats[c][j].role, content |-> ContentOf(chats[c][j])]]

\* C19: the chat_history of the request is the {role, content} of the
\* messages that precede the user message of this call in its chat, all of
\* them and in order, without the prompt itself, whatever the user did
\* (loadChat, createNewChat, deleteChat) while addMessageToChat was awaited.
C19_ChatHistoryIsEarlierMessages ==
    [][\A p \in Procs :
          Posts(p) =>
              \A c \in DOMAIN chats' : \A i \in DOMAIN chats'[c] :
                  (chats'[c][i].role = "user" /\ chats'[c][i].by = p) =>
                      sent'[p].chat_history = HistoryBefore(c, i)'
      ]_vars

\* C20: the busy flags are released in the end. Whenever a call has set
\* state.isStreaming and state.isWaitingForResponse, a state follows in
\* which both are false again, whichever way the request ends.
C20_BusyFlagsEventuallyReleased ==
    (isStreaming /\ isWaitingForResponse) ~> (~isStreaming /\ ~isWaitingForResponse)

\* In this step call p pushes an assistant message onto chat c.
PushesReply(p, c) ==
    /\ c \in DOMAIN chats
    /\ c \in DOMAIN chats'
    /\ Len(chats'[c]) = Len(chats[c]) + 1
    /\ chats'[c][Len(chats'[c])].role = "assistant"
    /\ chats'[c][Len(chats'[c])].by = p
\* Chat c holds the user message of call p.
HoldsPrompt(cs, c, p) ==
    \E i \in DOMAIN cs[c] : cs[c][i].role = "user" /\ cs[c][i].by = p

\* C21: the reply or the error message of a request goes into the chat that
\* got the request's user message, whatever the user loads, creates or
\* deletes meanwhile: it is pushed onto no other chat, and a call that ends
\* after a completion or an error, with its prompt still in a chat, has
\* its assistant message in that chat.
C21_ReplyGoesToItsChat ==
    [][\A p \in Procs :
          /\ \A c \in DOMAIN chats : PushesReply(p, c) => HoldsPrompt(chats, c, p)
          /\ \A c \in DOMAIN chats' :
                 (/\ Ends(p)
                  /\ Count("completion", events'[p]) + Count("error", events'[p]) > 0
                  /\ HoldsPrompt(chats', c, p)) =>
                     \E i \in DOMAIN chats'[c] :
                         chats'[c][i].role = "assistant" /\ chats'[c][i].by = p
      ]_vars

\* C22: the reply is pushed once, also when the save of the done branch
\* fails. A call pushes at most one assistant message; and once that save
\* has failed the call is over: it does not go back to reading or to a
\* second save, nothing is handled after the failure, and
\* state.currentStreamMessage no longer holds its message.
C22_PushedOnceWhenSaveFails ==
    \A p \in Procs :
        /\ AssistantBy(p) <= 1
        /\ Count("saveFailed", events[p]) > 0 =>
               /\ pc[p] \in {"returned", "rejected"}
               /\ events[p][Len(events[p])] = "saveFailed"
               /\ currentStreamMessage # p

\* C23: a request is issued only after the prompt is recorded. When a call
\* hands its request to fetch, the current chat is in state.chats and the
\* last message of its list is the user message with the prompt of the call.
C23_PromptRecordedBeforeFetch ==
    [][\A p \in Procs :
          Posts(p) =>
              /\ HasChat(chats', currentChatId')
              /\ \A ms \in {chats'[currentChatId']} :
                     /\ ms # <<>>
                     /\ ms[Len(ms)].role = "user"
                     /\ ms[Len(ms)].content = message[p]
      ]_vars

\* C24: a send whose user message cannot be saved has no effect. When
\* sendMessage has been rejected by the failed save of addMessageToChat, it
\* has issued no request, the busy flags are false, and no message of the
\* call is in a chat's list.
C24_FailedUserSaveHasNoEffect ==
    \A p \in Procs :
        (pc[p] = "rejected" /\ caller[p] = "send" /\ Count("error", events[p]) = 0) =>
            /\ ~sent[p].posted
            /\ Alone(p) => (~isStreaming /\ ~isWaitingForResponse)
            /\ \A c \in DOMAIN chats : \A i \in DOMAIN chats[c] : chats[c][i].by # p

\* C25: the current chat is a chat of state.chats. In every state
\* state.currentChatId is null or a key of state.chats.
C25_CurrentChatExists ==
    currentChatId = Null \/ currentChatId \in DOMAIN chats

\* C26: the two busy flags are equal in every reachable state:
\* state.isWaitingForResponse = state.isStreaming, whatever the interleaving
\* of the sendMessage calls.
C26_BusyFlagsEqual ==
    isWaitingForResponse = isStreaming
\* One call has ended on its done frame and lowered both flags while the
\* other call, which had raised them too, still reads its stream.
C26_Witness ==
    \E p \in Procs, q \in Procs :
        /\ p # q
        /\ pc[p] = "returned"
        /\ Count("completion", events[p]) = 1
        /\ pc[q] = "read"
        /\ ~isWaitingForResponse
        /\ ~isStreaming

\* C27: next and previous select an existing track. A step of
\* playNextTrack or playPreviousTrack on a list with tracks leaves
\* state.currentTrackIndex within 0..length-1, next goes from the last track
\* to the first and previous from the first to the last.
C27_NextPreviousSelectExistingTrack ==
    [][\A n \in {Len(availableMusicTracks)} :
          /\ (PlayNextTrack \/ PlayPreviousTrack) => currentTrackIndex' \in 0..(n - 1)
          /\ (PlayNextTrack /\ currentTrackIndex = n - 1) => currentTrackIndex' = 0
          /\ (PlayPreviousTrack /\ currentTrackIndex = 0) => currentTrackIndex' = n - 1
      ]_vars

\* C28: the mini player and the minimized player are never both visible.
C28_OnePlayerVisible ==
    miniPlayerHidden \/ minimizedPlayerHidden

\* C29: dragging keeps a panel inside the viewport. Every left and top that
\* drag writes satisfy 0 <= left <= max(0, viewportWidth - panelWidth) and
\* 0 <= top <= max(0, viewportHeight - panelHeight), and the position is
\* written only while a drag is started and not yet stopped.
C29_DragStaysInViewport ==
    [][/\ (\E current \in Pointers : Drag(current)) =>
            /\ isDragging
            /\ \A k \in 1..2 :
                  /\ 0 <= panelPos'[k]
                  /\ panelPos'[k] <= Max(0, viewport[k] - panelSize[k])
       /\ panelPos' # panelPos => isDragging
      ]_vars
\* A panel wider than the viewport has been moved by a drag, and its left
\* is 0.
C29_Witness ==
    /\ isDragging
    /\ panelPos # dragInitial
    /\ panelSize[1] > viewport[1]
    /\ panelPos[1] = 0

====
